---- MODULE Spec2Model ----
(***************************************************************************)
(* Model of src-tauri/src/main.rs: the desktop shell's bootstrap, which    *)
(* spawns the backend server from the setup hook (node in a debug build,   *)
(* the packaged sidecar in a release build) and then runs the GUI loop.    *)
(*                                                                         *)
(* The main thread is a sequential program; pc is the line of main.rs it   *)
(* is about to execute.  What the operating system and the GUI shell       *)
(* answer (current directory, script existence, spawn results, how the     *)
(* loop runner comes back) is chosen nondeterministically at the step that *)
(* asks.  The spawned backend is a second process that may exit at any     *)
(* time, or never.  Standard output is taken to be writable.               *)
(***************************************************************************)
EXTENDS Integers, Sequences, FiniteSets, TLC

\* Number of distinct OS error descriptions a failed spawn may carry.
NumOsErrors == 2

OsErrors == 1..NumOsErrors

Modes == {"Development", "Production"}

VARIABLES
    mode,           \* build configuration (debug_assertions on / off)
    pc,             \* line of main.rs the main thread is at, or how it ended
    out,            \* lines the launcher has written to standard output
    panicMsg,       \* message of the panic that ended the process, "" if none
    cwd,            \* result of std::env::current_dir(): "None", "Ok", "Err"
    scriptFound,    \* result of Path::exists(): "None", "Yes", "No"
    child,          \* result of Command::spawn() in the development block
    sidecar,        \* progress of the production block
    managed,        \* handles put in the application state store
    spawnAttempts,  \* number of spawn calls made
    children,       \* number of OS processes actually created
    childStatus,    \* "none", "running", "exited"
    setupCalls,     \* number of times the setup hook was entered
    hookResult,     \* "None" until the hook returns, then "Ok"
    loopStarted,    \* TRUE once the GUI event loop has been entered
    loopResult      \* "None", or what the runner returned: "Ok", "Err"

vars == <<mode, pc, out, panicMsg, cwd, scriptFound, child, sidecar, managed,
          spawnAttempts, children, childStatus, setupCalls, hookResult,
          loopStarted, loopResult>>

----------------------------------------------------------------------------
(* Diagnostic lines, main.rs println! calls *)

Line(m, a) == [msg |-> m, arg |-> a]

LineStarting   == Line("Starting backend server with node...", 0)
LineCwd        == Line("Current working directory", 0)
LineFound      == Line("Script found", 0)
LineNotFound   == Line("Script NOT found", 0)
LineSpawned    == Line("Backend node process spawned successfully", 0)
LineFailed(e)  == Line("Failed to spawn backend node process", e)
LineLoopExited == Line("App loop exited unexpectedly!", 0)

PanicSetupSidecar == "failed to setup sidecar"
PanicSpawnSidecar == "Failed to spawn sidecar"
PanicRun          == "error while running tauri application"

NoChild      == [tag |-> "None", e |-> 0]
ChildOk      == [tag |-> "Ok", e |-> 0]
ChildErr(e)  == [tag |-> "Err", e |-> e]
SpawnResults == {ChildOk} \cup {ChildErr(e) : e \in OsErrors}

----------------------------------------------------------------------------
(* Conditional compilation *)

DevBlockCompiled_always == TRUE

\* #[cfg(debug_assertions)] on the first block of the hook
DevBlockCompiled == mode = "Development"

\* #[cfg(not(debug_assertions))] on the second block of the hook
ProdBlockCompiled == mode = "Production"

AfterDevBlock == IF ProdBlockCompiled THEN "L58" ELSE "L64"

HookEntry == IF DevBlockCompiled THEN "L23" ELSE AfterDevBlock

----------------------------------------------------------------------------
Init ==
    /\ mode \in Modes
    /\ pc = "L17"
    /\ out = <<>>
    /\ panicMsg = ""
    /\ cwd = "None"
    /\ scriptFound = "None"
    /\ child = NoChild
    /\ sidecar = "None"
    /\ managed = <<>>
    /\ spawnAttempts = 0
    /\ children = 0
    /\ childStatus = "none"
    /\ setupCalls = 0
    /\ hookResult = "None"
    /\ loopStarted = FALSE
    /\ loopResult = "None"

\* Builder::default().setup(..).run(..): the shell enters the setup hook.
MainStart ==
    /\ pc = "L17"
    /\ pc' = HookEntry
    /\ setupCalls' = setupCalls + 1
    /\ UNCHANGED <<mode, out, panicMsg, cwd, scriptFound, child, sidecar,
                   managed, spawnAttempts, children, childStatus, hookResult,
                   loopStarted, loopResult>>

\* println!("Starting backend server with node...")
DevAnnounce ==
    /\ pc = "L23"
    /\ out' = Append(out, LineStarting)
    /\ pc' = "L26"
    /\ UNCHANGED <<mode, panicMsg, cwd, scriptFound, child, sidecar, managed,
                   spawnAttempts, children, childStatus, setupCalls,
                   hookResult, loopStarted, loopResult>>

DevCwd_printsAlways ==
    /\ pc = "L26"
    /\ \E ok \in BOOLEAN :
          /\ cwd' = IF ok THEN "Ok" ELSE "Err"
          /\ out' = Append(out, LineCwd)
    /\ pc' = "L33"
    /\ UNCHANGED <<mode, panicMsg, scriptFound, child, sidecar, managed,
                   spawnAttempts, children, childStatus, setupCalls,
                   hookResult, loopStarted, loopResult>>

\* if let Ok(cwd) = std::env::current_dir() { println!(..) }
DevCwd ==
    /\ pc = "L26"
    /\ \E ok \in BOOLEAN :
          /\ cwd' = IF ok THEN "Ok" ELSE "Err"
          /\ out' = IF ok THEN Append(out, LineCwd) ELSE out
    /\ pc' = "L33"
    /\ UNCHANGED <<mode, panicMsg, scriptFound, child, sidecar, managed,
                   spawnAttempts, children, childStatus, setupCalls,
                   hookResult, loopStarted, loopResult>>

\* if Path::new(script_path).exists() { println!(found) } else { println!(NOT found) }
DevCheckScript ==
    /\ pc = "L33"
    /\ \E ex \in BOOLEAN :
          /\ scriptFound' = IF ex THEN "Yes" ELSE "No"
          /\ out' = Append(out, IF ex THEN LineFound ELSE LineNotFound)
    /\ pc' = "L39"
    /\ UNCHANGED <<mode, panicMsg, cwd, child, sidecar, managed,
                   spawnAttempts, children, childStatus, setupCalls,
                   hookResult, loopStarted, loopResult>>

DevSpawn_gated ==
    /\ pc = "L39"
    /\ IF scriptFound = "Yes"
         THEN \E r \in SpawnResults :
                 /\ child' = r
                 /\ spawnAttempts' = spawnAttempts + 1
                 /\ children' = IF r.tag = "Ok" THEN children + 1 ELSE children
                 /\ childStatus' = IF r.tag = "Ok" THEN "running" ELSE childStatus
                 /\ pc' = "L46"
         ELSE /\ pc' = AfterDevBlock
              /\ UNCHANGED <<child, spawnAttempts, children, childStatus>>
    /\ UNCHANGED <<mode, out, panicMsg, cwd, scriptFound, sidecar, managed,
                   setupCalls, hookResult, loopStarted, loopResult>>

\* let child = Command::new("node").arg(script_path)....spawn();
DevSpawn ==
    /\ pc = "L39"
    /\ \E r \in SpawnResults :
          /\ child' = r
          /\ spawnAttempts' = spawnAttempts + 1
          /\ children' = IF r.tag = "Ok" THEN children + 1 ELSE children
          /\ childStatus' = IF r.tag = "Ok" THEN "running" ELSE childStatus
    /\ pc' = "L46"
    /\ UNCHANGED <<mode, out, panicMsg, cwd, scriptFound, sidecar, managed,
                   setupCalls, hookResult, loopStarted, loopResult>>

DevMatchOk_storesTwice ==
    /\ pc = "L46"
    /\ child.tag = "Ok"
    /\ out' = Append(out, LineSpawned)
    /\ managed' = Append(Append(managed, children), children)
    /\ pc' = AfterDevBlock
    /\ UNCHANGED <<mode, panicMsg, cwd, scriptFound, child, sidecar,
                   spawnAttempts, children, childStatus, setupCalls,
                   hookResult, loopStarted, loopResult>>

DevMatchOk_dropsHandle ==
    /\ pc = "L46"
    /\ child.tag = "Ok"
    /\ out' = Append(out, LineSpawned)
    /\ pc' = AfterDevBlock
    /\ UNCHANGED <<mode, panicMsg, cwd, scriptFound, child, sidecar, managed,
                   spawnAttempts, children, childStatus, setupCalls,
                   hookResult, loopStarted, loopResult>>

\* Ok(c) => { println!(spawned successfully); app.manage(BackendProcess(..Some(c))) }
DevMatchOk ==
    /\ pc = "L46"
    /\ child.tag = "Ok"
    /\ out' = Append(out, LineSpawned)
    /\ managed' = Append(managed, children)
    /\ pc' = AfterDevBlock
    /\ UNCHANGED <<mode, panicMsg, cwd, scriptFound, child, sidecar,
                   spawnAttempts, children, childStatus, setupCalls,
                   hookResult, loopStarted, loopResult>>

DevMatchErr_panics ==
    /\ pc = "L46"
    /\ child.tag = "Err"
    /\ panicMsg' = "Failed to spawn backend node process"
    /\ pc' = "panicked"
    /\ UNCHANGED <<mode, out, cwd, scriptFound, child, sidecar, managed,
                   spawnAttempts, children, childStatus, setupCalls,
                   hookResult, loopStarted, loopResult>>

DevMatchErr_retriesOnce ==
    /\ pc = "L46"
    /\ child.tag = "Err"
    /\ out' = Append(out, LineFailed(child.e))
    /\ pc' = IF spawnAttempts < 2 THEN "L39" ELSE AfterDevBlock
    /\ UNCHANGED <<mode, panicMsg, cwd, scriptFound, child, sidecar, managed,
                   spawnAttempts, children, childStatus, setupCalls,
                   hookResult, loopStarted, loopResult>>

\* Err(e) => println!("Failed to spawn backend node process: {}", e)
DevMatchErr ==
    /\ pc = "L46"
    /\ child.tag = "Err"
    /\ out' = Append(out, LineFailed(child.e))
    /\ pc' = AfterDevBlock
    /\ UNCHANGED <<mode, panicMsg, cwd, scriptFound, child, sidecar, managed,
                   spawnAttempts, children, childStatus, setupCalls,
                   hookResult, loopStarted, loopResult>>

\* TauriCommand::new_sidecar("backend").expect("failed to setup sidecar")
ProdNewSidecar ==
    /\ pc = "L58"
    /\ \E ok \in BOOLEAN :
          IF ok
            THEN /\ sidecar' = "Resolved"
                 /\ pc' = "L60"
                 /\ UNCHANGED panicMsg
            ELSE /\ sidecar' = "ResolveErr"
                 /\ panicMsg' = PanicSetupSidecar
                 /\ pc' = "panicked"
    /\ UNCHANGED <<mode, out, cwd, scriptFound, child, managed, spawnAttempts,
                   children, childStatus, setupCalls, hookResult, loopStarted,
                   loopResult>>

ProdSpawn_swallowsError ==
    /\ pc = "L60"
    /\ spawnAttempts' = spawnAttempts + 1
    /\ \E ok \in BOOLEAN :
          IF ok
            THEN /\ sidecar' = "Spawned"
                 /\ children' = children + 1
                 /\ childStatus' = "running"
            ELSE /\ sidecar' = "SpawnErr"
                 /\ UNCHANGED <<children, childStatus>>
    /\ pc' = "L64"
    /\ UNCHANGED <<mode, out, panicMsg, cwd, scriptFound, child, managed,
                   setupCalls, hookResult, loopStarted, loopResult>>

\* let _ = <sidecar command>.spawn().expect("Failed to spawn sidecar");
ProdSpawn ==
    /\ pc = "L60"
    /\ spawnAttempts' = spawnAttempts + 1
    /\ \E ok \in BOOLEAN :
          IF ok
            THEN /\ sidecar' = "Spawned"
                 /\ children' = children + 1
                 /\ childStatus' = "running"
                 /\ pc' = "L64"
                 /\ UNCHANGED panicMsg
            ELSE /\ sidecar' = "SpawnErr"
                 /\ panicMsg' = PanicSpawnSidecar
                 /\ pc' = "panicked"
                 /\ UNCHANGED <<children, childStatus>>
    /\ UNCHANGED <<mode, out, cwd, scriptFound, child, managed, setupCalls,
                   hookResult, loopStarted, loopResult>>

SetupReturnOk_waitsForChild ==
    /\ pc = "L64"
    /\ childStatus # "running"
    /\ hookResult' = "Ok"
    /\ loopStarted' = TRUE
    /\ pc' = "L66"
    /\ UNCHANGED <<mode, out, panicMsg, cwd, scriptFound, child, sidecar,
                   managed, spawnAttempts, children, childStatus, setupCalls,
                   loopResult>>

\* Ok(()) : the hook returns and the shell enters the event loop.
SetupReturnOk ==
    /\ pc = "L64"
    /\ hookResult' = "Ok"
    /\ loopStarted' = TRUE
    /\ pc' = "L66"
    /\ UNCHANGED <<mode, out, panicMsg, cwd, scriptFound, child, sidecar,
                   managed, spawnAttempts, children, childStatus, setupCalls,
                   loopResult>>

RunReturns_ignoresErr ==
    /\ pc = "L66"
    /\ \E r \in {"Ok", "Err"} : loopResult' = r
    /\ pc' = "L68"
    /\ UNCHANGED <<mode, out, panicMsg, cwd, scriptFound, child, sidecar,
                   managed, spawnAttempts, children, childStatus, setupCalls,
                   hookResult, loopStarted>>

\* .run(..) comes back to main; .expect("error while running tauri application")
RunReturns ==
    /\ pc = "L66"
    /\ \E r \in {"Ok", "Err"} :
          /\ loopResult' = r
          /\ IF r = "Ok"
               THEN /\ pc' = "L68"
                    /\ UNCHANGED panicMsg
               ELSE /\ pc' = "panicked"
                    /\ panicMsg' = PanicRun
    /\ UNCHANGED <<mode, out, cwd, scriptFound, child, sidecar, managed,
                   spawnAttempts, children, childStatus, setupCalls,
                   hookResult, loopStarted>>

\* The shell ends the process from inside the loop; run(..) never returns.
RunExitsProcess ==
    /\ pc = "L66"
    /\ pc' = "exited"
    /\ UNCHANGED <<mode, out, panicMsg, cwd, scriptFound, child, sidecar,
                   managed, spawnAttempts, children, childStatus, setupCalls,
                   hookResult, loopStarted, loopResult>>

\* println!("App loop exited unexpectedly!"); main returns.
FinalPrintln ==
    /\ pc = "L68"
    /\ out' = Append(out, LineLoopExited)
    /\ pc' = "main_end"
    /\ UNCHANGED <<mode, panicMsg, cwd, scriptFound, child, sidecar, managed,
                   spawnAttempts, children, childStatus, setupCalls,
                   hookResult, loopStarted, loopResult>>

\* The spawned backend is an independent OS process; it may exit on its own.
ChildExit ==
    /\ childStatus = "running"
    /\ childStatus' = "exited"
    /\ UNCHANGED <<mode, pc, out, panicMsg, cwd, scriptFound, child, sidecar,
                   managed, spawnAttempts, children, setupCalls, hookResult,
                   loopStarted, loopResult>>

\* The body of the setup closure.
Hook ==
    \/ DevAnnounce
    \/ DevCwd
    \/ DevCheckScript
    \/ DevSpawn
    \/ DevMatchOk
    \/ DevMatchErr
    \/ ProdNewSidecar
    \/ ProdSpawn
    \/ SetupReturnOk

Next ==
    \/ MainStart
    \/ Hook
    \/ RunReturns
    \/ RunExitsProcess
    \/ FinalPrintln
    \/ ChildExit

Spec == Init /\ [][Next]_vars

\* The hook is straight-line synchronous code on the main thread: it keeps
\* running.  Nothing is assumed about the child or about the event loop.
LiveSpec == Init /\ [][Next]_vars /\ WF_vars(MainStart \/ Hook)

----------------------------------------------------------------------------
TypeOK ==
    /\ mode \in Modes
    /\ pc \in {"L17", "L23", "L26", "L33", "L39", "L46", "L58", "L60", "L64",
               "L66", "L68", "main_end", "panicked", "exited"}
    /\ cwd \in {"None", "Ok", "Err"}
    /\ scriptFound \in {"None", "Yes", "No"}
    /\ child \in {NoChild} \cup SpawnResults
    /\ sidecar \in {"None", "Resolved", "ResolveErr", "Spawned", "SpawnErr"}
    /\ childStatus \in {"none", "running", "exited"}
    /\ hookResult \in {"None", "Ok"}
    /\ loopStarted \in BOOLEAN
    /\ loopResult \in {"None", "Ok", "Err"}

----------------------------------------------------------------------------
(* Properties *)

Range(s) == {s[i] : i \in 1..Len(s)}

Dev  == mode = "Development"
Prod == mode = "Production"

\* The main thread has left the setup hook, by returning or by panicking.
HookLeft == pc \in {"L66", "L68", "main_end", "exited", "panicked"}

\* C1: in Development mode, whatever the spawn of node returned, the hook
\* returns Ok and the GUI loop is entered; the process never ends before the
\* loop has started, and a failed spawn raises no panic.
C1_DevSpawnFailureNotFatal ==
    Dev =>
      /\ (pc = "panicked" => loopStarted /\ panicMsg = PanicRun)
      /\ (pc \in {"exited", "main_end"} => loopStarted)
      /\ (child.tag # "None" /\ HookLeft => hookResult = "Ok" /\ loopStarted)

C1_Witness ==
    /\ Dev
    /\ child.tag = "Err"
    /\ pc = "L66"
    /\ hookResult = "Ok"
    /\ loopStarted

\* C2: in Production mode, once sidecar resolution or the spawn has failed the
\* process has terminated by panic and the GUI loop has not been, and is never,
\* entered.
C2_ProdFailureIsFatal ==
    Prod /\ sidecar \in {"ResolveErr", "SpawnErr"} =>
      /\ pc = "panicked"
      /\ ~loopStarted
      /\ hookResult = "None"
      /\ panicMsg = IF sidecar = "ResolveErr" THEN PanicSetupSidecar
                                              ELSE PanicSpawnSidecar

C2_Witness ==
    /\ Prod
    /\ sidecar = "SpawnErr"
    /\ pc = "panicked"
    /\ spawnAttempts = 1

\* C3: in Development mode, once the existence check of the script has been
\* made and the hook has moved past the spawn statement, exactly one spawn of
\* node has been attempted, whether the script was found or not; what is
\* stored and whether the hook returns depend on the spawn result only.
C3_SpawnNotGatedByScriptCheck ==
    Dev /\ scriptFound # "None" /\ pc # "L39" =>
      /\ spawnAttempts = 1
      /\ child.tag # "None"
      /\ (pc # "L46" => Len(managed) = IF child.tag = "Ok" THEN 1 ELSE 0)
      /\ (HookLeft => hookResult = "Ok")

C3_Witness ==
    /\ Dev
    /\ scriptFound = "No"
    /\ spawnAttempts = 1
    /\ child.tag = "Ok"
    /\ pc = "L66"

\* C4: the application state store never holds more than one child process
\* handle, and the setup hook is entered at most once.
C4_AtMostOneHandle ==
    /\ Len(managed) <= 1
    /\ setupCalls <= 1

C4_Witness ==
    /\ Len(managed) = 1
    /\ setupCalls = 1
    /\ pc = "main_end"

\* C5 as stated: whenever the loop runner has returned to main, with Ok or with
\* an error, the final line has been emitted by the time the process ends.
C5_Original ==
    loopResult # "None" /\ pc \in {"main_end", "panicked"} =>
      LineLoopExited \in Range(out)

\* C5 amended: when the loop runner returns Ok, the final line is the last
\* line emitted before main ends; when it returns an error, the process
\* panics with "error while running tauri application" and the final line is
\* never emitted.
C5_FinalLineOnlyAfterOkReturn ==
    /\ (pc = "main_end" =>
          /\ loopResult = "Ok"
          /\ out # <<>>
          /\ out[Len(out)] = LineLoopExited)
    /\ (loopResult = "Err" =>
          /\ pc = "panicked"
          /\ panicMsg = PanicRun
          /\ LineLoopExited \notin Range(out))
    /\ (LineLoopExited \in Range(out) => loopResult = "Ok" /\ pc = "main_end")

C5_Witness ==
    /\ pc = "main_end"
    /\ loopResult = "Ok"
    /\ LineLoopExited \in Range(out)

\* C6 as stated: every execution that has left the hook has spawned exactly
\* one child OS process.
C6_Original ==
    HookLeft => children = 1

\* C6 amended: every execution makes at most one spawn attempt and creates at
\* most one child OS process; once the hook has been left, one child exists
\* exactly when the spawn succeeded and none when the spawn (or, in
\* Production, the sidecar resolution) failed.  Development always makes its
\* one attempt; Production makes it exactly when the sidecar resolved.
C6_AtMostOneChild ==
    /\ spawnAttempts <= 1
    /\ children <= spawnAttempts
    /\ (HookLeft =>
          /\ children = IF child.tag = "Ok" \/ sidecar = "Spawned" THEN 1 ELSE 0
          /\ (Dev => spawnAttempts = 1)
          /\ (Prod => spawnAttempts = IF sidecar = "ResolveErr" THEN 0 ELSE 1))

C6_Witness ==
    /\ Dev
    /\ HookLeft
    /\ child.tag = "Err"
    /\ spawnAttempts = 1
    /\ children = 0

\* Lines the development block has emitted when the main thread is at pc.
DevOutAt(p) ==
    LET l1 == <<LineStarting>>
        l2 == IF cwd = "Ok" THEN <<LineCwd>> ELSE <<>>
        l3 == <<IF scriptFound = "Yes" THEN LineFound ELSE LineNotFound>>
        l4 == <<IF child.tag = "Ok" THEN LineSpawned ELSE LineFailed(child.e)>>
    IN  CASE p \in {"L17", "L23"} -> <<>>
          [] p = "L26"            -> l1
          [] p = "L33"            -> l1 \o l2
          [] p \in {"L39", "L46"} -> l1 \o l2 \o l3
          [] OTHER                -> l1 \o l2 \o l3 \o l4

\* C7: in Development mode the lines emitted by the hook are, in this order,
\* the startup announcement, the CWD line exactly when the current directory
\* resolved, one of found / NOT found, one of spawned / failed; nothing else
\* is emitted by the hook.
C7_DevDiagnosticOrder ==
    Dev =>
      out = DevOutAt(pc) \o (IF pc = "main_end" THEN <<LineLoopExited>> ELSE <<>>)

C7_Witness ==
    /\ Dev
    /\ cwd = "Err"
    /\ scriptFound = "No"
    /\ child.tag = "Err"
    /\ pc = "L64"
    /\ Len(out) = 3

\* C8: in Production mode the "spawned successfully" line is never emitted;
\* wherever it is emitted the mode is Development and the spawn of node
\* succeeded.
C8_NoSuccessLineInProd ==
    /\ (Prod => LineSpawned \notin Range(out))
    /\ (LineSpawned \in Range(out) => Dev /\ child.tag = "Ok")

C8_Witness ==
    /\ Prod
    /\ sidecar = "Spawned"
    /\ pc = "L66"
    /\ LineSpawned \notin Range(out)

\* C9: once a spawn has returned a running child, the hook goes on to return
\* and the GUI loop is entered, in every behaviour, including those in which
\* the child never exits.
C9_HookNeverWaitsOnChild ==
    (childStatus = "running" /\ pc \in {"L46", "L64"}) ~> (pc = "L66")

C9_Witness ==
    /\ pc = "L66"
    /\ loopStarted
    /\ childStatus = "running"

\* C10: the state store holds a handle only in Development mode after a
\* successful spawn of node; once the hook has returned it holds one exactly
\* in that case, and none after a Development spawn failure or in Production.
C10_HandleIffDevSpawnOk ==
    /\ (managed # <<>> => Dev /\ child.tag = "Ok")
    /\ (hookResult = "Ok" => (Len(managed) = 1 <=> (Dev /\ child.tag = "Ok")))
    /\ (Prod => managed = <<>>)

C10_Witness ==
    /\ hookResult = "Ok"
    /\ Dev
    /\ child.tag = "Ok"
    /\ managed = <<1>>
    /\ pc = "exited"

====
